---- MODULE Spec2Model ----
(***************************************************************************)
(* Model of backend/src/services/health.service.js: the process-wide       *)
(* request and error counters, the five custom prom-client metrics, and    *)
(* the eight exported operations, called by several logical                *)
(* request-handling flows on one event loop.                               *)
(*                                                                         *)
(* Numbers.  JavaScript numbers are doubles.  Every number the model       *)
(* handles is an integer far below 2^53 or a quotient of two such          *)
(* integers, so quotients are kept as exact rationals [n, d]; the places   *)
(* where a double is rounded or compared say why the exact value decides.  *)
(* Strings the code builds are sequences of one-character strings.        *)
(***************************************************************************)
EXTENDS Integers, Sequences, FiniteSets, TLC

\* ------------------------------------------------------------------ bounds

\* Calls started in one behaviour of Spec (any operation).
MaxCalls == 3
\* Calls started in one behaviour of SpecCounters (counter operations only).
MaxCounterCalls == 7
\* Calls started in one behaviour of SpecMetrics (registry operations only).
MaxMetricCalls == 4

\* Logical request-handling flows sharing the event loop.
Flows == {"f1", "f2"}

\* Label values the middleware passes.
Methods == {"GET", "POST"}
Routes == {"/api"}
StatusCodes == {200, 500}
\* Durations in milliseconds: a bucket boundary, the documented 1500, and
\* one above every finite bucket.
Durations == {100, 1500, 12000}
ConnCounts == {1, 2}

\* process.memoryUsage() readings: below, exactly at, and above 90% of the heap.
MemReadings ==
  { [heapUsed |-> 17, heapTotal |-> 20, external |-> 1],
    [heapUsed |-> 18, heapTotal |-> 20, external |-> 1],
    [heapUsed |-> 10, heapTotal |-> 10, external |-> 2] }

\* process.cpuUsage() readings (microseconds) with os.cpus().length.
CpuReadings ==
  { [user |-> 1000000, system |-> 500000, cpus |-> 2],
    [user |-> 3000000, system |-> 1000000, cpus |-> 2] }

\* process.env.PORT as a call reads it: absent, or a string (the empty string
\* included).
Unset == [set |-> FALSE]
EnvString(s) == [set |-> TRUE, str |-> s]
PortSettings == { Unset, EnvString(<<>>), EnvString(<<"0">>),
                  EnvString(<<"8", "0", "8", "0">>) }

\* ------------------------------------------------------------- arithmetic

RECURSIVE Gcd(_, _)
Gcd(a, b) == IF b = 0 THEN a ELSE Gcd(b, a % b)

\* The rational n/d (d > 0) in lowest terms.
Rat(n, d) == LET g == Gcd(n, d) IN [n |-> n \div g, d |-> d \div g]
RatAdd(a, b) == Rat(a.n * b.d + b.n * a.d, a.d * b.d)
RatLeq(a, b) == a.n * b.d <= b.n * a.d

Digit(k) == CASE k = 0 -> "0" [] k = 1 -> "1" [] k = 2 -> "2" [] k = 3 -> "3"
              [] k = 4 -> "4" [] k = 5 -> "5" [] k = 6 -> "6" [] k = 7 -> "7"
              [] k = 8 -> "8" [] k = 9 -> "9"

\* Number.prototype.toString of a non-negative integer.
RECURSIVE IntToString(_)
IntToString(k) ==
  IF k < 10 THEN <<Digit(k)>> ELSE Append(IntToString(k \div 10), Digit(k % 10))

\* ------------------------------------------------------------------ state

VARIABLES
  requestCount,        \* let requestCount
  errorCount,          \* let errorCount
  httpRequestsTotal,   \* Counter http_requests_total: label triple -> value (0: no series yet)
  httpRequestDuration, \* Histogram http_request_duration_seconds: label pair -> series
  activeConnections,   \* Gauge active_connections
  memoryUsage,         \* Gauge memory_usage_bytes: type -> sample
  cpuUsage,            \* Gauge cpu_usage_percent
  pc,                  \* per flow: "idle", or the await it is suspended at
  local,               \* per flow: what the suspended call holds
  lastCall,            \* the call or resumption that took the last step
  ret,                 \* what that step returned or settled
  calls,               \* calls started so far; a call's number identifies it
  nRequestCalls,       \* incrementRequestCount calls so far
  nErrorCalls,         \* incrementErrorCount calls so far
  errorsWithinRequests \* every prefix so far had nErrorCalls <= nRequestCalls

counters == <<requestCount, errorCount>>
registry == <<httpRequestsTotal, httpRequestDuration, activeConnections,
              memoryUsage, cpuUsage>>
flows == <<pc, local>>
vars == <<requestCount, errorCount, httpRequestsTotal, httpRequestDuration,
          activeConnections, memoryUsage, cpuUsage, pc, local,
          lastCall, ret, calls, nRequestCalls, nErrorCalls, errorsWithinRequests>>

RequestLabels == Methods \X Routes \X StatusCodes
DurationLabels == Methods \X Routes
MemoryTypes == {"heap_used", "heap_total", "external"}

\* buckets: [0.1, 0.5, 1, 2, 5, 10]
Buckets == << Rat(1, 10), Rat(1, 2), Rat(1, 1), Rat(2, 1), Rat(5, 1), Rat(10, 1) >>

\* A histogram series before its first observation.
EmptySeries == [count |-> 0, sum |-> Rat(0, 1), le |-> [i \in 1..Len(Buckets) |-> 0]]

\* A gauge sample: whether it was ever set, its value, and how many times it
\* has been set (a gauge that was never set lists no sample).
NoSample == [set |-> FALSE, version |-> 0]
Set(sample, v) == [set |-> TRUE, value |-> v, version |-> sample.version + 1]

Undefined == [type |-> "undefined"]
Number(v) == [type |-> "number", value |-> v]
Pending == [type |-> "promise"]
Fulfilled(v) == [type |-> "fulfilled", value |-> v]
Rejected(e) == [type |-> "rejected", reason |-> e]

Call(op, args) == [op |-> op, args |-> args]

Init ==
  /\ requestCount = 0
  /\ errorCount = 0
  /\ httpRequestsTotal = [l \in RequestLabels |-> 0]
  /\ httpRequestDuration = [l \in DurationLabels |-> EmptySeries]
  /\ activeConnections = NoSample
  /\ memoryUsage = [t \in MemoryTypes |-> NoSample]
  /\ cpuUsage = NoSample
  /\ pc = [f \in Flows |-> "idle"]
  /\ local = [f \in Flows |-> Undefined]
  /\ lastCall = Call("init", <<>>)
  /\ ret = Undefined
  /\ calls = 0
  /\ nRequestCalls = 0
  /\ nErrorCalls = 0
  /\ errorsWithinRequests = TRUE

\* A synchronous call runs on the event loop from its first statement to its
\* return; some flow must be running (not suspended at an await) to make it.
Running == \E f \in Flows : pc[f] = "idle"

\* Bookkeeping of a step that starts call `op`.
Started(op, args) ==
  /\ calls' = calls + 1
  /\ lastCall' = Call(op, args)
  /\ nRequestCalls' = nRequestCalls + (IF op = "incrementRequestCount" THEN 1 ELSE 0)
  /\ nErrorCalls' = nErrorCalls + (IF op = "incrementErrorCount" THEN 1 ELSE 0)
  /\ errorsWithinRequests' = (errorsWithinRequests /\ nErrorCalls' <= nRequestCalls')

\* Bookkeeping of a step that resumes a suspended call.
Resumed(op, args) ==
  /\ lastCall' = Call(op, args)
  /\ UNCHANGED <<calls, nRequestCalls, nErrorCalls, errorsWithinRequests>>

\* ------------------------------------------------------------- mutations

\* Counter.inc left out of incrementRequestCount.
CounterInc_Forgotten(counter, labels) == counter

\* Counter.inc(labels): the labelled series grows by one.
CounterInc(counter, labels) == [counter EXCEPT ![labels] = @ + 1]

\* requestCount + 1 computed and dropped.
RequestCountInc_Dropped(c) == c

\* requestCount++
RequestCountInc(c) == c + 1

incrementRequestCount(method, route, statusCode) ==
  /\ Running
  /\ requestCount' = RequestCountInc(requestCount)
  /\ httpRequestsTotal' = CounterInc(httpRequestsTotal, <<method, route, statusCode>>)
  /\ ret' = Undefined
  /\ Started("incrementRequestCount", <<method, route, statusCode>>)
  /\ UNCHANGED <<errorCount, httpRequestDuration, activeConnections, memoryUsage,
                 cpuUsage, flows>>

\* errorCount += 2, as if the error were counted on two paths.
ErrorCountInc_Twice(c) == c + 2

\* errorCount++ : the counter grows by one, the expression yields the old value.
ErrorCountInc(c) == c + 1

incrementErrorCount ==
  /\ Running
  /\ errorCount' = ErrorCountInc(errorCount)
  /\ ret' = Number(errorCount)
  /\ Started("incrementErrorCount", <<>>)
  /\ UNCHANGED <<requestCount, registry, flows>>

\* The duration observed as it is, in milliseconds.
ToSeconds_NoConversion(duration) == Rat(duration, 1)

\* duration / 1000
ToSeconds(duration) == Rat(duration, 1000)

\* Histogram.observe(labels, value): one more observation in the series, its
\* value added to the sum, and counted in every bucket whose bound is >= value.
Observe(series, value) ==
  [count |-> series.count + 1,
   sum |-> RatAdd(series.sum, value),
   le |-> [i \in 1..Len(Buckets) |->
             series.le[i] + (IF RatLeq(value, Buckets[i]) THEN 1 ELSE 0)]]

recordRequestDuration(method, route, duration) ==
  /\ Running
  /\ httpRequestDuration' =
       [httpRequestDuration EXCEPT ![<<method, route>>] = Observe(@, ToSeconds(duration))]
  /\ ret' = Undefined
  /\ Started("recordRequestDuration", <<method, route, duration>>)
  /\ UNCHANGED <<counters, httpRequestsTotal, activeConnections, memoryUsage,
                 cpuUsage, flows>>

updateActiveConnections(count) ==
  /\ Running
  /\ activeConnections' = Set(activeConnections, count)
  /\ ret' = Undefined
  /\ Started("updateActiveConnections", <<count>>)
  /\ UNCHANGED <<counters, httpRequestsTotal, httpRequestDuration, memoryUsage,
                 cpuUsage, flows>>

\* The three memoryUsage.set calls of updateMemoryUsage.
MemoryGauge(gauge, mem) ==
  [t \in MemoryTypes |->
     CASE t = "heap_used" -> Set(gauge[t], mem.heapUsed)
       [] t = "heap_total" -> Set(gauge[t], mem.heapTotal)
       [] t = "external" -> Set(gauge[t], mem.external)]

updateMemoryUsage(mem) ==
  /\ Running
  /\ memoryUsage' = MemoryGauge(memoryUsage, mem)
  /\ ret' = Undefined
  /\ Started("updateMemoryUsage", <<mem>>)
  /\ UNCHANGED <<counters, httpRequestsTotal, httpRequestDuration, activeConnections,
                 cpuUsage, flows>>

\* cpuUsage.set((total / 1000000) / os.cpus().length)
CpuGauge(gauge, cpu) == Set(gauge, Rat(cpu.user + cpu.system, 1000000 * cpu.cpus))

updateCpuUsage(cpu) ==
  /\ Running
  /\ cpuUsage' = CpuGauge(cpuUsage, cpu)
  /\ ret' = Undefined
  /\ Started("updateCpuUsage", <<cpu>>)
  /\ UNCHANGED <<counters, httpRequestsTotal, httpRequestDuration, activeConnections,
                 memoryUsage, flows>>

\* ---------------------------------------------------------------- queries

\* Number values of JavaScript that are not finite.
NaN == [n |-> 0, d |-> 0]
Infinity == [n |-> 1, d |-> 0]

\* a / b on non-negative integers; a zero divisor gives NaN or Infinity.
Div(a, b) == IF b = 0 THEN (IF a = 0 THEN NaN ELSE Infinity) ELSE Rat(a, b)

\* x * k for a positive integer k.
Times(x, k) == IF x.d = 0 THEN x ELSE Rat(x.n * k, x.d)

\* Two decimals by truncation (Math.floor(x * 100) / 100) instead of rounding.
ToFixed2_Truncating(x) ==
  IF x = NaN THEN <<"N", "a", "N">>
  ELSE IF x = Infinity THEN <<"I", "n", "f", "i", "n", "i", "t", "y">>
  ELSE LET h == (100 * x.n) \div x.d
       IN IntToString(h \div 100) \o <<".", Digit((h \div 10) % 10), Digit(h % 10)>>

\* Number.prototype.toFixed(2) of x >= 0: the integer h with h/100 nearest to
\* x, the larger one on a tie, written with its last two digits after the
\* point.  The double (errorCount / requestCount) * 100 lies within 2^-45 of
\* the exact quotient, and for counters below 64 the exact quotient is at
\* least 1/12600 away from every tie k/100 + 0.005 (a tie needs a divisor
\* that is a multiple of 64), so rounding the exact value gives toFixed's digits.
ToFixed2(x) ==
  IF x = NaN THEN <<"N", "a", "N">>
  ELSE IF x = Infinity THEN <<"I", "n", "f", "i", "n", "i", "t", "y">>
  ELSE LET h == (2 * 100 * x.n + x.d) \div (2 * x.d)
       IN IntToString(h \div 100) \o <<".", Digit((h \div 10) % 10), Digit(h % 10)>>

\* requestCount > 0 ? ((errorCount / requestCount) * 100).toFixed(2) + '%' : '0%'
ErrorRate(requests, errors) ==
  IF requests > 0
    THEN ToFixed2(Times(Div(errors, requests), 100)) \o <<"%">>
    ELSE <<"0", "%">>

\* The object getSystemHealth returns.  Its timestamp, uptime, memory, cpu and
\* system fields are readings of the clock and the runtime that no state of
\* the module depends on; they are left out.
SystemHealth ==
  [status |-> "healthy",
   requests |-> [total |-> requestCount,
                 errors |-> errorCount,
                 errorRate |-> ErrorRate(requestCount, errorCount)]]

getSystemHealth ==
  /\ Running
  /\ ret' = [type |-> "object", health |-> SystemHealth]
  /\ Started("getSystemHealth", <<>>)
  /\ UNCHANGED <<counters, registry, flows>>

\* process.env.PORT ?? 5001 : only an absent variable falls back.
PortValue_Nullish(env) ==
  IF env.set THEN [type |-> "string", value |-> env.str] ELSE Number(5001)

\* process.env.PORT || 5001 : an absent variable reads undefined and an empty
\* one reads '', both falsy; every other string is truthy and is the result.
PortValue(env) ==
  IF env.set /\ env.str # <<>>
    THEN [type |-> "string", value |-> env.str]
    ELSE Number(5001)

\* { ...health, process: {...}, environment: { nodeEnv, port } }; the process
\* identity and nodeEnv are readings nothing else depends on and are left out.
getDetailedMetrics(envPORT) ==
  /\ Running
  /\ ret' = [type |-> "object", health |-> SystemHealth,
             environment |-> [port |-> PortValue(envPORT)]]
  /\ Started("getDetailedMetrics", <<envPORT>>)
  /\ UNCHANGED <<counters, registry, flows>>

\* The access awaited outside any try block: its rejection escapes.
FilesystemCheck_NoCatch(checks, writable) ==
  IF writable
    THEN [threw |-> FALSE,
          checks |-> Append(checks, [name |-> "filesystem", status |-> "healthy"])]
    ELSE [threw |-> TRUE, checks |-> checks]

\* try { await access(...); push healthy } catch { push unhealthy }: the
\* checks after the block, and whether anything escaped it.
FilesystemCheck(checks, writable) ==
  IF writable
    THEN [threw |-> FALSE,
          checks |-> Append(checks, [name |-> "filesystem", status |-> "healthy"])]
    ELSE [threw |-> FALSE,
          checks |-> Append(checks, [name |-> "filesystem", status |-> "unhealthy",
                                     error |-> "Cannot write to logs directory"])]

\* heapUsed <= heapTotal * 0.9
MemoryHealthy_Inclusive(mem) == mem.heapUsed * 10 <= mem.heapTotal * 9

\* memUsage.heapUsed < (memUsage.heapTotal * 0.9).  The double 0.9 exceeds
\* 9/10 by a relative 2.5e-17, less than half an ulp, so for an integer
\* heapTotal below 2^53 whose nine tenths is an integer the product rounds to
\* it exactly; otherwise the exact product is at least 1/10 away from the
\* integer heapUsed.  The exact comparison decides in both cases.
MemoryHealthy(mem) == mem.heapUsed * 10 < mem.heapTotal * 9

\* Math.round(x) for x >= 0: floor(x + 0.5).
Round(x) == (2 * x.n + x.d) \div (2 * x.d)

MemoryCheck(mem) ==
  [name |-> "memory",
   status |-> IF MemoryHealthy(mem) THEN "healthy" ELSE "warning",
   usage |-> IntToString(Round(Times(Div(mem.heapUsed, mem.heapTotal), 100))) \o <<"%">>]

\* The call runs to its await of fs.promises.access and suspends there.
checkDependenciesCall(f) ==
  /\ pc[f] = "idle"
  /\ pc' = [pc EXCEPT ![f] = "checkDependencies:access"]
  /\ local' = [local EXCEPT ![f] = [checks |-> <<>>]]
  /\ ret' = Pending
  /\ Started("checkDependencies", <<f>>)
  /\ UNCHANGED <<counters, registry>>

\* The access settles (writable or not); the rest of the body runs to its
\* return, reading process.memoryUsage() on the way.
checkDependenciesResume(f, writable, mem) ==
  /\ pc[f] = "checkDependencies:access"
  /\ LET fsys == FilesystemCheck(local[f].checks, writable)
     IN ret' = IF fsys.threw
                 THEN Rejected("access")
                 ELSE Fulfilled(Append(fsys.checks, MemoryCheck(mem)))
  /\ pc' = [pc EXCEPT ![f] = "idle"]
  /\ local' = [local EXCEPT ![f] = Undefined]
  /\ Resumed("checkDependencies:resume", <<f, writable, mem>>)
  /\ UNCHANGED <<counters, registry>>

\* What the registry lists for the five custom metrics.  The default metrics
\* of collectDefaultMetrics() are the library's own and are left out.
Samples ==
  [http_requests_total |-> httpRequestsTotal,
   http_request_duration_seconds |-> httpRequestDuration,
   active_connections |-> activeConnections,
   memory_usage_bytes |-> memoryUsage,
   cpu_usage_percent |-> cpuUsage]

\* updateMemoryUsage(); updateCpuUsage(); register.metrics(): both gauges are
\* set, then the rendering starts on the registry as it then is.
\* getPrometheusMetricsCall_RenderFirst starts the rendering before the updates.
getPrometheusMetricsCall_RenderFirst(f, mem, cpu) ==
  /\ pc[f] = "idle"
  /\ memoryUsage' = MemoryGauge(memoryUsage, mem)
  /\ cpuUsage' = CpuGauge(cpuUsage, cpu)
  /\ UNCHANGED <<counters, httpRequestsTotal, httpRequestDuration, activeConnections>>
  /\ pc' = [pc EXCEPT ![f] = "getPrometheusMetrics:render"]
  /\ local' = [local EXCEPT ![f] =
                 [mem |-> mem, cpu |-> cpu, before |-> Samples, atStart |-> Samples]]
  /\ ret' = Pending
  /\ Started("getPrometheusMetrics", <<f, mem, cpu>>)

\* updateMemoryUsage(); updateCpuUsage(); return register.metrics(): both
\* gauges are set, then the rendering starts, and the caller waits for it.
\* The suspended call holds its readings, the registry as it was before the
\* call, and the registry the rendering started on.
getPrometheusMetricsCall(f, mem, cpu) ==
  /\ pc[f] = "idle"
  /\ memoryUsage' = MemoryGauge(memoryUsage, mem)
  /\ cpuUsage' = CpuGauge(cpuUsage, cpu)
  /\ UNCHANGED <<counters, httpRequestsTotal, httpRequestDuration, activeConnections>>
  /\ pc' = [pc EXCEPT ![f] = "getPrometheusMetrics:render"]
  /\ local' = [local EXCEPT ![f] =
                 [mem |-> mem, cpu |-> cpu, before |-> Samples, atStart |-> Samples']]
  /\ ret' = Pending
  /\ Started("getPrometheusMetrics", <<f, mem, cpu>>)

\* The rendering settles.  The library reads each metric's samples at some
\* point between the start of the rendering and its end; the two ends are
\* modelled.
getPrometheusMetricsResume(f) ==
  /\ pc[f] = "getPrometheusMetrics:render"
  /\ \E text \in {local[f].atStart, Samples} : ret' = Fulfilled(text)
  /\ pc' = [pc EXCEPT ![f] = "idle"]
  /\ local' = [local EXCEPT ![f] = Undefined]
  /\ Resumed("getPrometheusMetrics:resume",
             <<f, local[f].mem, local[f].cpu, local[f].before>>)
  /\ UNCHANGED <<counters, registry>>

\* ----------------------------------------------------------- specification

\* Every operation, called in any order by any flow.
Next ==
  \/ \E m \in Methods, r \in Routes, s \in StatusCodes :
       calls < MaxCalls /\ incrementRequestCount(m, r, s)
  \/ calls < MaxCalls /\ incrementErrorCount
  \/ \E m \in Methods, r \in Routes, d \in Durations :
       calls < MaxCalls /\ recordRequestDuration(m, r, d)
  \/ \E c \in ConnCounts : calls < MaxCalls /\ updateActiveConnections(c)
  \/ \E mem \in MemReadings : calls < MaxCalls /\ updateMemoryUsage(mem)
  \/ \E cpu \in CpuReadings : calls < MaxCalls /\ updateCpuUsage(cpu)
  \/ calls < MaxCalls /\ getSystemHealth
  \/ \E envPORT \in PortSettings : calls < MaxCalls /\ getDetailedMetrics(envPORT)
  \/ \E f \in Flows : calls < MaxCalls /\ checkDependenciesCall(f)
  \/ \E f \in Flows, mem \in MemReadings, cpu \in CpuReadings :
       calls < MaxCalls /\ getPrometheusMetricsCall(f, mem, cpu)
  \/ \E f \in Flows, w \in BOOLEAN, mem \in MemReadings : checkDependenciesResume(f, w, mem)
  \/ \E f \in Flows : getPrometheusMetricsResume(f)

Spec == Init /\ [][Next]_vars

\* The counter operations and the health query alone, to a greater depth.
NextCounters ==
  \/ \E m \in Methods, r \in Routes, s \in StatusCodes :
       calls < MaxCounterCalls /\ incrementRequestCount(m, r, s)
  \/ calls < MaxCounterCalls /\ incrementErrorCount
  \/ calls < MaxCounterCalls /\ getSystemHealth

SpecCounters == Init /\ [][NextCounters]_vars

\* The operations on the registry alone, deep enough for every metric to be
\* touched before a rendering; the three request-side operations are called
\* with one input each.
NextMetrics ==
  \/ calls < MaxMetricCalls /\ incrementRequestCount("GET", "/api", 200)
  \/ calls < MaxMetricCalls /\ recordRequestDuration("GET", "/api", 1500)
  \/ calls < MaxMetricCalls /\ updateActiveConnections(1)
  \/ \E mem \in MemReadings : calls < MaxMetricCalls /\ updateMemoryUsage(mem)
  \/ \E cpu \in CpuReadings : calls < MaxMetricCalls /\ updateCpuUsage(cpu)
  \/ \E f \in Flows, mem \in MemReadings, cpu \in CpuReadings :
       calls < MaxMetricCalls /\ getPrometheusMetricsCall(f, mem, cpu)
  \/ \E f \in Flows : getPrometheusMetricsResume(f)

SpecMetrics == Init /\ [][NextMetrics]_vars

\* ------------------------------------------------------------ properties

RECURSIVE SumOver(_, _)
SumOver(f, S) ==
  IF S = {} THEN 0
  ELSE LET x == CHOOSE y \in S : TRUE IN f[x] + SumOver(f, S \ {x})

Abs(k) == IF k < 0 THEN -k ELSE k

IsDigit(c) == \E k \in 0..9 : c = Digit(k)
DigitValue(c) == CHOOSE k \in 0..9 : c = Digit(k)

\* The number a sequence of digit characters writes.
RECURSIVE DigitsValue(_)
DigitsValue(cs) ==
  IF cs = <<>> THEN 0
  ELSE 10 * DigitsValue(SubSeq(cs, 1, Len(cs) - 1)) + DigitValue(cs[Len(cs)])

\* s reads <digits>.<two digits>% with no superfluous leading zero.
IsTwoDecimalPercent(s) ==
  /\ Len(s) >= 5
  /\ s[Len(s)] = "%"
  /\ s[Len(s) - 3] = "."
  /\ \A i \in (1..Len(s) - 1) \ {Len(s) - 3} : IsDigit(s[i])
  /\ Len(s) > 5 => s[1] # "0"

\* The value of such a string, in hundredths of a percent point.
Hundredths(s) ==
  DigitsValue(SubSeq(s, 1, Len(s) - 4) \o SubSeq(s, Len(s) - 2, Len(s) - 1))

\* C1: whenever getSystemHealth returns, after any mix of operations, its
\* requests.total is the number of incrementRequestCount calls made so far.
C1_TotalIsCallCount ==
  lastCall.op = "getSystemHealth" => ret.health.requests.total = nRequestCalls

C1_Witness ==
  /\ lastCall.op = "getSystemHealth"
  /\ nRequestCalls = 2
  /\ ret.health.requests.total = 2
  /\ httpRequestsTotal[<<"GET", "/api", 200>>] = 1
  /\ httpRequestsTotal[<<"POST", "/api", 500>>] = 1

\* C2: whenever getSystemHealth returns, requests.errorRate is "0%" if the
\* request counter is zero (whatever the error counter), and otherwise a
\* number with exactly two decimals followed by "%" that lies within half a
\* hundredth of errors / total * 100; it is never the NaN or Infinity a
\* division by zero gives.
C2_ErrorRate ==
  lastCall.op = "getSystemHealth" =>
    LET rate == ret.health.requests.errorRate
    IN IF requestCount > 0
         THEN /\ IsTwoDecimalPercent(rate)
              /\ 2 * Abs(Hundredths(rate) * requestCount - errorCount * 100 * 100)
                   <= requestCount
         ELSE rate = <<"0", "%">>

C2_Witness ==
  /\ lastCall.op = "getSystemHealth"
  /\ requestCount = 3
  /\ errorCount = 2
  /\ ret.health.requests.errorRate = <<"6", "6", ".", "6", "7", "%">>

\* C3: whenever checkDependencies settles it is fulfilled, never rejected,
\* with exactly two entries, filesystem first and memory second; the
\* filesystem entry is healthy without an error field if the logs directory
\* was writable, and unhealthy with the fixed message if it was not.
C3_NeverRejects ==
  lastCall.op = "checkDependencies:resume" =>
    /\ ret.type = "fulfilled"
    /\ Len(ret.value) = 2
    /\ ret.value[1].name = "filesystem"
    /\ ret.value[2].name = "memory"
    /\ IF lastCall.args[2]
         THEN ret.value[1] = [name |-> "filesystem", status |-> "healthy"]
         ELSE ret.value[1] = [name |-> "filesystem", status |-> "unhealthy",
                              error |-> "Cannot write to logs directory"]

C3_Witness ==
  /\ lastCall.op = "checkDependencies:resume"
  /\ ~lastCall.args[2]
  /\ ret.type = "fulfilled"
  /\ ret.value[1].status = "unhealthy"
  /\ ret.value[2].status = "healthy"

\* C4: the memory entry checkDependencies returns is "warning" exactly when
\* heap-used is at least nine tenths of heap-total and "healthy" exactly when
\* it is below, whatever the filesystem check found.
C4_MemoryStatus ==
  (lastCall.op = "checkDependencies:resume" /\ ret.type = "fulfilled") =>
    LET mem == lastCall.args[3]
        status == ret.value[Len(ret.value)].status
    IN /\ status \in {"warning", "healthy"}
       /\ status = "warning" <=> 10 * mem.heapUsed >= 9 * mem.heapTotal
       /\ status = "healthy" <=> 10 * mem.heapUsed < 9 * mem.heapTotal

C4_Witness ==
  /\ lastCall.op = "checkDependencies:resume"
  /\ ~lastCall.args[2]
  /\ lastCall.args[3].heapUsed = 18
  /\ lastCall.args[3].heapTotal = 20
  /\ ret.type = "fulfilled"
  /\ ret.value[2].status = "warning"

\* The bucket bounds 0.1, 0.5, 1, 2, 5, 10 seconds, in milliseconds.
BucketMillis == <<100, 500, 1000, 2000, 5000, 10000>>

\* C5: a recordRequestDuration(method, route, d) step adds one observation to
\* the (method, route) series: its count grows by one, its sum by d/1000, and
\* exactly the buckets whose bound is at least d/1000 grow by one; the other
\* series, the request counter and the error counter stay as they are.
C5_OneObservation ==
  [][lastCall'.op = "recordRequestDuration" =>
       LET key == <<lastCall'.args[1], lastCall'.args[2]>>
           d == lastCall'.args[3]
           old == httpRequestDuration[key]
           new == httpRequestDuration'[key]
       IN /\ new.count = old.count + 1
          /\ new.sum.n * old.sum.d * 1000 = (old.sum.n * 1000 + d * old.sum.d) * new.sum.d
          /\ \A i \in 1..Len(BucketMillis) :
               new.le[i] = old.le[i] + (IF d <= BucketMillis[i] THEN 1 ELSE 0)
          /\ DOMAIN new.le = 1..Len(BucketMillis)
          /\ \A other \in DurationLabels \ {key} :
               httpRequestDuration'[other] = httpRequestDuration[other]
          /\ requestCount' = requestCount
          /\ errorCount' = errorCount]_vars

C5_Witness ==
  /\ lastCall = Call("recordRequestDuration", <<"GET", "/api", 1500>>)
  /\ httpRequestDuration[<<"GET", "/api">>] =
       [count |-> 1, sum |-> [n |-> 3, d |-> 2], le |-> <<0, 0, 0, 1, 1, 1>>]
  /\ httpRequestDuration[<<"POST", "/api">>].count = 1
  /\ httpRequestDuration[<<"POST", "/api">>].le = <<1, 1, 1, 1, 1, 1>>

\* C6 as stated: getDetailedMetrics reports the port variable's value whenever
\* the variable is set, and 5001 when it is absent.
C6_PortWheneverSet ==
  lastCall.op = "getDetailedMetrics" =>
    LET env == lastCall.args[1]
        port == ret.environment.port
    IN IF env.set
         THEN port.type = "string" /\ port.value = env.str
         ELSE port.type = "number" /\ port.value = 5001

\* C6, amended: getDetailedMetrics reports the port variable's value whenever
\* the variable is set to a non-empty string, and 5001 when it is absent or
\* empty; the rest of the result is the health snapshot of the counters, the
\* same whatever the variable holds.
C6_PortOrDefault ==
  lastCall.op = "getDetailedMetrics" =>
    LET env == lastCall.args[1]
        port == ret.environment.port
    IN /\ IF env.set /\ Len(env.str) > 0
            THEN port.type = "string" /\ port.value = env.str
            ELSE port.type = "number" /\ port.value = 5001
       /\ DOMAIN ret.environment = {"port"}
       /\ ret.health.status = "healthy"
       /\ ret.health.requests.total = requestCount
       /\ ret.health.requests.errors = errorCount
       /\ requestCount = nRequestCalls
       /\ errorCount = nErrorCalls

C6_Witness ==
  /\ lastCall = Call("getDetailedMetrics", <<EnvString(<<>>)>>)
  /\ ret.environment.port.type = "number"
  /\ ret.environment.port.value = 5001
  /\ ret.health.requests.total = 1
  /\ ret.health.requests.errors = 1

HasSeries(counter) == \E l \in DOMAIN counter : counter[l] > 0
HasObservations(histogram) == \E l \in DOMAIN histogram : histogram[l].count > 0

\* The metric names for which a text lists at least one sample.
Listed(text) ==
  {name \in DOMAIN text :
     CASE name = "http_requests_total" -> HasSeries(text[name])
       [] name = "http_request_duration_seconds" -> HasObservations(text[name])
       [] name = "memory_usage_bytes" -> \A t \in MemoryTypes : text[name][t].set
       [] OTHER -> text[name].set}

FiveNames == {"http_requests_total", "http_request_duration_seconds",
              "active_connections", "memory_usage_bytes", "cpu_usage_percent"}

\* C7: the text a getPrometheusMetrics call returns never shows a memory or
\* CPU value set before that call: each of the four gauge samples in it was
\* set by the call itself, from the readings of that call, or by a later
\* update; and if the other three metrics had samples when the call was made,
\* the text lists all five metric names.
C7_RefreshBeforeRender ==
  lastCall.op = "getPrometheusMetrics:resume" =>
    LET mem == lastCall.args[2]
        cpu == lastCall.args[3]
        before == lastCall.args[4]
        text == ret.value
        fresh(sample, old) == sample.set /\ sample.version > old.version
        own(sample, old, v) ==
          fresh(sample, old) /\ (sample.version = old.version + 1 => sample.value = v)
        cpuSample == text.cpu_usage_percent
    IN /\ ret.type = "fulfilled"
       /\ own(text.memory_usage_bytes["heap_used"],
              before.memory_usage_bytes["heap_used"], mem.heapUsed)
       /\ own(text.memory_usage_bytes["heap_total"],
              before.memory_usage_bytes["heap_total"], mem.heapTotal)
       /\ own(text.memory_usage_bytes["external"],
              before.memory_usage_bytes["external"], mem.external)
       /\ fresh(cpuSample, before.cpu_usage_percent)
       /\ cpuSample.version = before.cpu_usage_percent.version + 1 =>
            cpuSample.value.n * 1000000 * cpu.cpus
              = (cpu.user + cpu.system) * cpuSample.value.d
       /\ {"http_requests_total", "http_request_duration_seconds",
           "active_connections"} \subseteq Listed(before)
            => Listed(text) = FiveNames

C7_Witness ==
  /\ lastCall.op = "getPrometheusMetrics:resume"
  /\ Listed(lastCall.args[4]) = {"http_requests_total", "http_request_duration_seconds",
                                 "active_connections"}
  /\ Listed(ret.value) = FiveNames
  /\ ret.value.memory_usage_bytes["heap_used"].value = lastCall.args[2].heapUsed

MutationOps == {"incrementRequestCount", "incrementErrorCount", "recordRequestDuration",
                "updateActiveConnections", "updateMemoryUsage", "updateCpuUsage"}

\* C8: in every interleaving of the flows, the request counter is the number
\* of incrementRequestCount calls made and the error counter the number of
\* incrementErrorCount calls made, also while flows are suspended; a mutation
\* call returns in the step that starts it, suspending no flow, and a flow is
\* only ever suspended inside checkDependencies or getPrometheusMetrics.
C8_NoLostUpdate ==
  /\ [](/\ requestCount = nRequestCalls
        /\ errorCount = nErrorCalls
        /\ \A f \in Flows :
             pc[f] \in {"idle", "checkDependencies:access", "getPrometheusMetrics:render"})
  /\ [][lastCall'.op \in MutationOps => (pc' = pc /\ ret'.type # "promise")]_vars
  /\ [][(\E f \in Flows : pc[f] = "idle" /\ pc'[f] # "idle") =>
          lastCall'.op \in {"checkDependencies", "getPrometheusMetrics"}]_vars

C8_Witness ==
  /\ pc["f1"] = "checkDependencies:access"
  /\ lastCall.op = "incrementErrorCount"
  /\ nRequestCalls = 1
  /\ nErrorCalls = 1
  /\ requestCount = 1
  /\ errorCount = 1

\* C9 as stated: in every reachable state the error counter is at most the
\* request counter.
C9_ErrorsAtMostRequests == errorCount <= requestCount

\* C9, amended: the error counter is at most the request counter in every
\* state reached by calls of which every prefix holds at least as many
\* incrementRequestCount as incrementErrorCount calls, and getSystemHealth
\* then reports errors <= total; the module does not enforce that order, and
\* without it the error counter exceeds the request counter.
C9_ErrorsAtMostRequestsInOrder ==
  errorsWithinRequests =>
    /\ errorCount <= requestCount
    /\ lastCall.op = "getSystemHealth" =>
         ret.health.requests.errors <= ret.health.requests.total

C9_Witness ==
  /\ errorsWithinRequests
  /\ lastCall.op = "getSystemHealth"
  /\ ret.health.requests.errors = 1
  /\ ret.health.requests.total = 1

\* C10: the request counter always equals the sum of http_requests_total over
\* its label combinations; an incrementRequestCount step raises both by one
\* and no other step changes either; an incrementErrorCount step raises the
\* error counter by one and changes neither the request counter nor any
\* metric; getSystemHealth and getDetailedMetrics change neither counter.
C10_CounterMatchesMetric ==
  /\ [](requestCount = SumOver(httpRequestsTotal, RequestLabels))
  /\ [][IF lastCall'.op = "incrementRequestCount"
          THEN /\ requestCount' = requestCount + 1
               /\ SumOver(httpRequestsTotal', RequestLabels)
                    = SumOver(httpRequestsTotal, RequestLabels) + 1
               /\ httpRequestsTotal'[lastCall'.args] = httpRequestsTotal[lastCall'.args] + 1
          ELSE UNCHANGED <<requestCount, httpRequestsTotal>>]_vars
  /\ [][lastCall'.op = "incrementErrorCount" =>
          /\ errorCount' = errorCount + 1
          /\ UNCHANGED <<requestCount, registry>>]_vars
  /\ [][lastCall'.op \in {"getSystemHealth", "getDetailedMetrics"} =>
          UNCHANGED <<counters, registry>>]_vars

C10_Witness ==
  /\ requestCount = 2
  /\ errorCount = 1
  /\ lastCall.op = "incrementErrorCount"
  /\ httpRequestsTotal[<<"GET", "/api", 500>>] = 1
  /\ httpRequestsTotal[<<"POST", "/api", 200>>] = 1

====
